---------------------------- MODULE Spec2Model ----------------------------
(* Model of the Laravel Translations extension (src/src/extension.ts):    *)
(* the PHP array-literal parser, the key resolver, the location finder,   *)
(* the translation cache with its file watcher, and the two resolution    *)
(* entry points.  Text is a sequence of one-character strings, so that    *)
(* the regular expressions of the source are matched character by         *)
(* character.                                                             *)
EXTENDS Integers, Sequences, FiniteSets, TLC

(**************************************************************************)
(* Characters                                                             *)
(**************************************************************************)
NL == "\n"
BS == "\\"
SQ == "'"
DQ == "\""
\* the backtick: the lexer takes no backtick in a string, so the character is named
BQ == "BACKTICK"

\* \s of a JavaScript regular expression, over the characters of the model
IsSpace(c) == c \in {" ", NL, "\t"}

\* the quote class of arrayPattern and nestedPattern: single, double, backtick
IsQuote(c) == c \in {SQ, DQ, BQ}

\* whether the literal word w occurs in t at position i
HasAt(t, i, w) ==
    /\ i >= 1
    /\ i + Len(w) - 1 <= Len(t)
    /\ \A j \in 1..Len(w) : t[i + j - 1] = w[j]

\* first position at or after i that holds no whitespace (a greedy \s*)
RECURSIVE SkipSpace(_, _)
SkipSpace(t, i) ==
    IF i <= Len(t) /\ IsSpace(t[i]) THEN SkipSpace(t, i + 1) ELSE i

\* ^ under the m flag: start of text or just after a line terminator
AtLineStart(t, i) == i = 1 \/ t[i - 1] = NL

\* $ under the m flag: end of text or just before a line terminator
AtLineEnd(t, i) == i = Len(t) + 1 \/ t[i] = NL

(**************************************************************************)
(* parsePhpArray: the cleaning replaces                                   *)
(**************************************************************************)
PhpTag == <<"<", "?", "p", "h", "p">>
ReturnWord == <<"r", "e", "t", "u", "r", "n">>

\* .replace(/^<\?php\s*/gm, '')
RECURSIVE StripOpenTag(_, _)
StripOpenTag(t, i) ==
    IF i > Len(t) THEN << >>
    ELSE IF AtLineStart(t, i) /\ HasAt(t, i, PhpTag)
         THEN StripOpenTag(t, SkipSpace(t, i + Len(PhpTag)))
         ELSE <<t[i]>> \o StripOpenTag(t, i + 1)

\* .replace(/\?>/g, '')
RECURSIVE StripCloseTag(_, _)
StripCloseTag(t, i) ==
    IF i > Len(t) THEN << >>
    ELSE IF HasAt(t, i, <<"?", ">">>)
         THEN StripCloseTag(t, i + 2)
         ELSE <<t[i]>> \o StripCloseTag(t, i + 1)

\* end of a match of /^\s*return\s+/m that starts at i, or 0
ReturnMatchEnd(t, i) ==
    LET p == SkipSpace(t, i)
        e == p + Len(ReturnWord)
    IN  IF /\ AtLineStart(t, i)
           /\ HasAt(t, p, ReturnWord)
           /\ e <= Len(t)
           /\ IsSpace(t[e])
        THEN SkipSpace(t, e)
        ELSE 0

\* .replace(/^\s*return\s+/gm, '')
RECURSIVE StripReturn(_, _)
StripReturn(t, i) ==
    IF i > Len(t) THEN << >>
    ELSE LET e == ReturnMatchEnd(t, i)
         IN  IF e > 0 THEN StripReturn(t, e)
             ELSE <<t[i]>> \o StripReturn(t, i + 1)

\* end of a match of /;\s*$/m that starts at i, or 0: the greedy \s* gives
\* back whitespace until the position is the end of a line
SemiMatchEnd(t, i) ==
    LET hi == SkipSpace(t, i + 1)
        ends == {e \in (i + 1)..hi : AtLineEnd(t, e)}
    IN  IF t[i] = ";" /\ ends # {}
        THEN CHOOSE e \in ends : \A f \in ends : f <= e
        ELSE 0

\* .replace(/;\s*$/gm, '')
RECURSIVE StripSemicolon(_, _)
StripSemicolon(t, i) ==
    IF i > Len(t) THEN << >>
    ELSE LET e == SemiMatchEnd(t, i)
         IN  IF e > 0 THEN StripSemicolon(t, e)
             ELSE <<t[i]>> \o StripSemicolon(t, i + 1)

RECURSIVE TrimLeft(_)
TrimLeft(t) ==
    IF t # << >> /\ IsSpace(Head(t)) THEN TrimLeft(Tail(t)) ELSE t

RECURSIVE TrimRight(_)
TrimRight(t) ==
    IF t # << >> /\ IsSpace(t[Len(t)])
    THEN TrimRight(SubSeq(t, 1, Len(t) - 1))
    ELSE t

\* String.prototype.trim
Trim(t) == TrimRight(TrimLeft(t))

\* cleaned.replace(/^\[/, '').replace(/\]$/, '')
StripBrackets(t) ==
    LET a == IF t # << >> /\ Head(t) = "[" THEN Tail(t) ELSE t
    IN  IF a # << >> /\ a[Len(a)] = "]" THEN SubSeq(a, 1, Len(a) - 1) ELSE a

\* the text the two patterns of parsePhpArray run over
Cleaned(content) ==
    StripBrackets(Trim(StripSemicolon(
        StripReturn(StripCloseTag(StripOpenTag(content, 1), 1), 1), 1)))

(**************************************************************************)
(* parsePhpArray: the two patterns                                        *)
(**************************************************************************)
\* ((?:\\.|(?!\1)[^\\])*?)\1 from position i on: the position of the
\* closing quote q, or 0.  A backslash takes the next character with it
\* (any but a line terminator); the first quote q not so taken closes.
RECURSIVE ScanQuoted(_, _, _)
ScanQuoted(t, i, q) ==
    IF i > Len(t) THEN 0
    ELSE IF t[i] = BS
         THEN IF i + 1 <= Len(t) /\ t[i + 1] # NL
              THEN ScanQuoted(t, i + 2, q)
              ELSE 0
         ELSE IF t[i] = q THEN i
              ELSE ScanQuoted(t, i + 1, q)

\* the quoted key, then \s*=>\s*, at position i: [ok, key, next]
KeyArrowAt(t, i) ==
    LET j == IF i <= Len(t) /\ IsQuote(t[i]) THEN ScanQuoted(t, i + 1, t[i]) ELSE 0
        p == SkipSpace(t, j + 1)
    IN  IF j > 0 /\ HasAt(t, p, <<"=", ">">>)
        THEN [ok |-> TRUE, key |-> SubSeq(t, i + 1, j - 1), next |-> SkipSpace(t, p + 2)]
        ELSE [ok |-> FALSE, key |-> << >>, next |-> 0]

\* arrayPattern at position i: [ok, key, value, end]
ArrayPatternAt(t, i) ==
    LET ka == KeyArrowAt(t, i)
        r == ka.next
        m == IF ka.ok /\ r <= Len(t) /\ IsQuote(t[r]) THEN ScanQuoted(t, r + 1, t[r]) ELSE 0
    IN  IF m > 0
        THEN [ok |-> TRUE, key |-> ka.key, value |-> SubSeq(t, r + 1, m - 1), end |-> m + 1]
        ELSE [ok |-> FALSE, key |-> << >>, value |-> << >>, end |-> 0]

\* position of the first "]" at or after i, or 0: the reluctant [\s\S]*?\]
RECURSIVE FirstCloseBracket(_, _)
FirstCloseBracket(t, i) ==
    IF i > Len(t) THEN 0
    ELSE IF t[i] = "]" THEN i ELSE FirstCloseBracket(t, i + 1)

\* nestedPattern at position i: [ok, key, value (the captured content), end]
NestedPatternAt(t, i) ==
    LET ka == KeyArrowAt(t, i)
        r == ka.next
        m == IF ka.ok /\ r <= Len(t) /\ t[r] = "[" THEN FirstCloseBracket(t, r + 1) ELSE 0
    IN  IF m > 0
        THEN [ok |-> TRUE, key |-> ka.key, value |-> SubSeq(t, r + 1, m - 1), end |-> m + 1]
        ELSE [ok |-> FALSE, key |-> << >>, value |-> << >>, end |-> 0]

\* the while (arrayPattern.exec(cleaned)) loop: the matches, left to right
RECURSIVE ArrayMatches(_, _)
ArrayMatches(t, i) ==
    IF i > Len(t) THEN << >>
    ELSE LET m == ArrayPatternAt(t, i)
         IN  IF m.ok THEN <<m>> \o ArrayMatches(t, m.end)
             ELSE ArrayMatches(t, i + 1)

\* the while (nestedPattern.exec(cleaned)) loop: the matches, left to right
RECURSIVE NestedMatches(_, _)
NestedMatches(t, i) ==
    IF i > Len(t) THEN << >>
    ELSE LET m == NestedPatternAt(t, i)
         IN  IF m.ok THEN <<m>> \o NestedMatches(t, m.end)
             ELSE NestedMatches(t, i + 1)

(**************************************************************************)
(* Parsed values: a string, an object (ParsedTranslations), or null       *)
(**************************************************************************)
Str(s) == [t |-> "string", s |-> s]
Obj(m) == [t |-> "object", m |-> m]
Null == [t |-> "null"]

\* result[key] = v on a mapping: the entry is added or overwritten
Put(m, key, v) == (key :> v) @@ m

\* the empty mapping, {}
Empty == << >>

\* result[key] = value for each match of arrayPattern, in order
RECURSIVE PutFlat(_, _)
PutFlat(result, ms) ==
    IF ms = << >> THEN result
    ELSE PutFlat(Put(result, Head(ms).key, Str(Head(ms).value)), Tail(ms))

\* parsePhpArray: the flat matches are stored first, then for each match of
\* nestedPattern, in order, result[key] = parsePhpArray('[' + nestedContent + ']')
RECURSIVE parsePhpArray(_)
RECURSIVE PutNested(_, _)
PutNested(result, ms) ==
    IF ms = << >> THEN result
    ELSE PutNested(Put(result, Head(ms).key,
                       parsePhpArray(<<"[">> \o Head(ms).value \o <<"]">>)),
                   Tail(ms))

parsePhpArray(content) ==
    LET cleaned == Cleaned(content)
    IN  Obj(PutNested(PutFlat(Empty, ArrayMatches(cleaned, 1)),
                      NestedMatches(cleaned, 1)))

(**************************************************************************)
(* getNestedValue                                                         *)
(**************************************************************************)
\* String.prototype.split on sep: at least one piece, possibly empty
RECURSIVE Split(_, _)
Split(s, sep) ==
    LET I == {i \in 1..Len(s) : s[i] = sep}
    IN  IF I = {} THEN <<s>>
        ELSE LET i == CHOOSE x \in I : \A y \in I : x <= y
             IN  <<SubSeq(s, 1, i - 1)>> \o Split(SubSeq(s, i + 1, Len(s)), sep)

\* Array.prototype.join with sep
RECURSIVE Join(_, _)
Join(ps, sep) ==
    IF ps = << >> THEN << >>
    ELSE IF Len(ps) = 1 THEN ps[1]
         ELSE ps[1] \o <<sep>> \o Join(Tail(ps), sep)

\* the for loop over keys: descend while current is an object holding key
RECURSIVE Walk(_, _)
Walk(current, keys) ==
    IF keys = << >> THEN current
    ELSE IF current.t = "object" /\ Head(keys) \in DOMAIN current.m
         THEN Walk(current.m[Head(keys)], Tail(keys))
         ELSE Null

\* typeof current === 'string' ? current : null
getNestedValue(obj, keyPath) ==
    LET current == Walk(obj, Split(keyPath, "."))
    IN  IF current.t = "string" THEN current ELSE Null

(**************************************************************************)
(* Translation files as PHP array literals                                *)
(**************************************************************************)
\* most key-value entries (at all nesting levels together) of a literal
MaxEntries == 3
\* most segments of a key path resolved inside a file
MaxPathLen == 3

QuoteStyles == {SQ, DQ, BQ}
KeyNames == {<<"a">>, <<"b">>}
\* key texts of a literal: plain names and one with a dot in it
LiteralKeys == KeyNames \cup {<<"a", ".", "b">>}
\* string values of a literal written with quote q: plain, empty, holding
\* the quote itself (written escaped), holding a closing bracket
LeafValues(q) == {<<"v">>, << >>, <<"v", q>>, <<"]">>}

Leaf(s) == [t |-> "string", s |-> s]
Arr(e) == [t |-> "array", e |-> e]

\* the literals written with quote q that hold exactly n entries: a literal
\* is a sequence of entries [k, v], v a string or again a literal
RECURSIVE Literals(_, _)
Literals(n, q) ==
    IF n = 0 THEN {<< >>}
    ELSE UNION {
           LET first == {[k |-> k, v |-> Arr(f)] : k \in LiteralKeys, f \in Literals(m - 1, q)}
                          \cup (IF m = 1
                                THEN {[k |-> k, v |-> Leaf(s)] : k \in LiteralKeys, s \in LeafValues(q)}
                                ELSE {})
           IN  {<<e>> \o f : e \in first, f \in Literals(n - m, q)}
           : m \in 1..n}

\* s as written between quotes q: q and the backslash get a backslash
RECURSIVE Escaped(_, _)
Escaped(s, q) ==
    IF s = << >> THEN << >>
    ELSE (IF Head(s) \in {q, BS} THEN <<BS, Head(s)>> ELSE <<Head(s)>>)
         \o Escaped(Tail(s), q)

Quoted(s, q) == <<q>> \o Escaped(s, q) \o <<q>>

\* the PHP source of the entries of a literal, comma separated
RECURSIVE Source(_, _)
Source(lit, q) ==
    IF lit = << >> THEN << >>
    ELSE LET e == Head(lit)
             val == IF e.v.t = "string" THEN Quoted(e.v.s, q)
                    ELSE <<"[">> \o Source(e.v.e, q) \o <<"]">>
         IN  Quoted(e.k, q) \o <<" ", "=", ">", " ">> \o val
             \o (IF Len(lit) > 1 THEN <<",", " ">> ELSE << >>)
             \o Source(Tail(lit), q)

\* a translation file: <?php, return [ ... ];
FileText(lit, q) ==
    PhpTag \o <<NL>> \o ReturnWord \o <<" ", "[">> \o Source(lit, q) \o <<"]", ";", NL>>

Undefined == [t |-> "undefined"]

\* what PHP makes of the literal at a path of keys: of two entries with one
\* key the later stands
RECURSIVE PhpValue(_, _)
PhpValue(lit, keys) ==
    LET I == {i \in 1..Len(lit) : lit[i].k = Head(keys)}
    IN  IF I = {} THEN Undefined
        ELSE LET v == lit[CHOOSE i \in I : \A j \in I : j <= i].v
             IN  IF Len(keys) = 1 THEN v
                 ELSE IF v.t = "array" THEN PhpValue(v.e, Tail(keys))
                      ELSE Undefined

\* the dotted key paths of 1..MaxPathLen names
KeyPaths ==
    {Join(ps, ".") : ps \in UNION {[1..n -> KeyNames] : n \in 1..MaxPathLen}}

(**************************************************************************)
(* State                                                                  *)
(**************************************************************************)
VARIABLES
    \* the parser and the key resolver run on one file
    literal,    \* the literal the file was written from
    quote,      \* the quote style it was written with
    content,    \* the text of the file
    parsed,     \* parsePhpArray(content), once parsed
    keyPath,    \* the key path last resolved
    value,      \* getNestedValue(parsed, keyPath)
    pc,
    \* the extension in a workspace
    dirs,       \* the locale directories on disk: <<root, locale>>
    files,      \* the text of the translation file in each that has it
    translationCache,   \* cache key -> parsed translations
    pending,    \* watcher events raised and not yet delivered
    last,       \* what the handler that ran last did and returned
    cleared,    \* no resolution has run since the cache was last cleared
    edits       \* files written or deleted so far

pvars == <<literal, quote, content, parsed, keyPath, value, pc>>
svars == <<dirs, files, translationCache, pending, last, cleared, edits>>
vars == <<literal, quote, content, parsed, keyPath, value, pc,
          dirs, files, translationCache, pending, last, cleared, edits>>

Idle == [op |-> "none"]

(**************************************************************************)
(* The parser and the key resolver on one file                            *)
(**************************************************************************)
InitParse ==
    /\ quote \in QuoteStyles
    /\ literal \in UNION {Literals(n, quote) : n \in 1..MaxEntries}
    /\ content = FileText(literal, quote)
    /\ parsed = Null
    /\ keyPath = << >>
    /\ value = Null
    /\ pc = "read"
    /\ dirs = {}
    /\ files = Empty
    /\ translationCache = Empty
    /\ pending = << >>
    /\ last = Idle
    /\ cleared = [yes |-> FALSE, dropped |-> << >>]
    /\ edits = 0

Parse ==
    /\ pc = "read"
    /\ parsed' = parsePhpArray(content)
    /\ pc' = "parsed"
    /\ UNCHANGED <<literal, quote, content, keyPath, value>>
    /\ UNCHANGED svars

Resolve(path) ==
    /\ pc = "parsed"
    /\ keyPath' = path
    /\ value' = getNestedValue(parsed, path)
    /\ pc' = "resolved"
    /\ UNCHANGED <<literal, quote, content, parsed>>
    /\ UNCHANGED svars

NextParse == Parse \/ \E path \in KeyPaths : Resolve(path)

SpecParse == InitParse /\ [][NextParse]_vars

(**************************************************************************)
(* Claims about the parser and the key resolver (under SpecParse)         *)
(**************************************************************************)
\* the segments of the key path last resolved
Segments == Split(keyPath, ".")

\* every entry of the literal is a flat key-value pair
AllFlat(lit) == \A i \in 1..Len(lit) : lit[i].v.t = "string"

\* s is written between quotes as it stands: nothing in it is escaped
Plain(s, q) == \A i \in 1..Len(s) : s[i] \notin {q, BS}

\* C4: in a file of flat pairs, resolving a key k yields exactly the string
\* value v of the pair 'k' => 'v', escaped characters unescaped.
C4_FlatPairYieldsValue ==
    (/\ pc = "resolved"
     /\ AllFlat(literal)
     /\ Len(Segments) = 1
     /\ PhpValue(literal, Segments).t = "string")
    => value = Str(PhpValue(literal, Segments).s)

\* C5: for 'a' => ['b' => 'v'], resolving a.b yields v, and resolving a
\* alone yields NotFound (v a string with nothing to unescape).
C5_NestedPairYieldsValue ==
    /\ (/\ pc = "resolved"
        /\ Len(Segments) = 2
        /\ PhpValue(literal, Segments).t = "string"
        /\ Plain(PhpValue(literal, Segments).s, quote))
       => value = Str(PhpValue(literal, Segments).s)
    /\ (/\ pc = "resolved"
        /\ Len(Segments) = 1
        /\ PhpValue(literal, Segments).t = "array")
       => value = Null

\* C6: for arrays nested two levels deep, 'a' => ['b' => ['c' => 'v']],
\* resolving the path that names every level yields the leaf v.
C6_DeeplyNestedResolves ==
    (/\ pc = "resolved"
     /\ Len(Segments) = 3
     /\ PhpValue(literal, Segments).t = "string"
     /\ Plain(PhpValue(literal, Segments).s, quote))
    => value = Str(PhpValue(literal, Segments).s)

\* C7: in a file of flat pairs, a pair whose key text itself holds dots,
\* 'a.b' => 'v', is found by resolving the key path a.b.
C7_DottedKeyResolves ==
    (/\ pc = "resolved"
     /\ AllFlat(literal)
     /\ PhpValue(literal, <<keyPath>>).t = "string"
     /\ Len(Segments) > 1
     /\ Plain(PhpValue(literal, <<keyPath>>).s, quote))
    => value = Str(PhpValue(literal, <<keyPath>>).s)

\* the mapping levels of a literal: <<keys leading to it, its entries>>
RECURSIVE Levels(_, _)
Levels(lit, at) ==
    {<<at, lit>>} \cup
    UNION {IF lit[i].v.t = "array" /\ PhpValue(lit, <<lit[i].k>>) = lit[i].v
           THEN Levels(lit[i].v.e, Append(at, lit[i].k))
           ELSE {}
           : i \in 1..Len(lit)}

\* the keys a level declares both as a flat pair and as a key-array pair
BothWays(lit) ==
    {k \in {lit[i].k : i \in 1..Len(lit)} :
        /\ \E i \in 1..Len(lit) : lit[i].k = k /\ lit[i].v.t = "string"
        /\ \E i \in 1..Len(lit) : lit[i].k = k /\ lit[i].v.t = "array"}

\* C9: where one mapping level declares a key both as a flat pair and as a
\* key-array pair, in either order, the parsed mapping of that level holds
\* a mapping under the key.
C9_NestedWins ==
    pc # "read" =>
        \A lv \in Levels(literal, << >>) : \A k \in BothWays(lv[2]) :
            Walk(parsed, Append(lv[1], k)).t = "object"

\* the same at the top level of the file alone
C9_NestedWinsAtTop ==
    pc # "read" =>
        \A k \in BothWays(literal) : Walk(parsed, <<k>>).t = "object"

\* C12: a one-segment key path the literal does not declare at its top
\* level, declared inside a nested array or nowhere, resolves to NotFound.
C12_OnlyDeclaredPathsResolve ==
    (/\ pc = "resolved"
     /\ Len(Segments) = 1
     /\ PhpValue(literal, Segments) = Undefined)
    => value = Null

(**************************************************************************)
(* The workspace: language directories and translation files              *)
(**************************************************************************)
\* most locale directories in the workspace when the extension activates
MaxDirs == 2
\* most file writes and deletions after activation
MaxEdits == 1

\* possiblePaths of getLangDirectory, relative to the workspace root:
\* the language roots in the order probed
possiblePaths ==
    << <<"test-project", "lang">>,
       <<"lang">>,
       <<"resources", "lang">>,
       <<"resources", "languages">>,
       <<"app", "lang">> >>

Locales == {"en", "es"}

\* every locale directory getLangDirectory can select
LangDirs == {Append(possiblePaths[i], l) : i \in 1..Len(possiblePaths), l \in Locales}

PhpExt == <<".", "p", "h", "p">>

\* path.join(langDir, file + '.php')
FilePath(langDir, file) == [dir |-> langDir, name |-> file \o PhpExt]

\* the texts a translation file holds in the workspace
StoreTexts ==
    { FileText(<<[k |-> <<"a">>, v |-> Leaf(<<"v">>)], [k |-> <<"b">>, v |-> Leaf(<< >>)]>>, SQ),
      FileText(<<[k |-> <<"b">>, v |-> Leaf(<<"w">>)], [k |-> <<"a">>, v |-> Leaf(<<"w">>)]>>, SQ) }

\* the keys hovered or clicked: file f, then the path inside it
TranslationKeys == {<<"f", ".", "a">>, <<"f", ".", "b">>}
FileNames == {<<"f">>}

\* getLangDirectory: the first probed directory that exists, else lang/<locale>
getLangDirectory(locale) ==
    LET found == {i \in 1..Len(possiblePaths) : Append(possiblePaths[i], locale) \in dirs}
    IN  IF found # {}
        THEN Append(possiblePaths[CHOOSE i \in found : \A j \in found : i <= j], locale)
        ELSE <<"lang", locale>>

\* path.dirname
Dirname(path) == SubSeq(path, 1, Len(path) - 1)

\* fs.existsSync of a directory that holds locale directories
RootExists(root) == \E d \in dirs : Dirname(d) = root

\* getAvailableLocales: the directories beside the default locale's
getAvailableLocales ==
    LET langDir == Dirname(getLangDirectory("en"))
    IN  IF ~RootExists(langDir) THEN {"en"}
        ELSE {l \in Locales : Append(langDir, l) \in dirs}

\* the watcher's glob **/lang/**/*.php: a directory named lang on the way
\* to a .php file
GlobMatches(path) ==
    /\ \E i \in 1..Len(path.dir) : path.dir[i] = "lang"
    /\ HasAt(path.name, Len(path.name) - Len(PhpExt) + 1, PhpExt)
    /\ Len(path.name) > Len(PhpExt)

(**************************************************************************)
(* findTranslationInContent                                               *)
(**************************************************************************)
\* String.prototype.indexOf, 0-based, -1 when absent
IndexOf(line, pattern) ==
    LET I == {i \in 1..Len(line) + 1 : HasAt(line, i, pattern)}
    IN  IF I = {} THEN -1 ELSE (CHOOSE i \in I : \A j \in I : i <= j) - 1

\* the first of the three quoted forms of finalKey found in the line, or -1
IndexInLine(line, finalKey) ==
    LET s == IndexOf(line, <<SQ>> \o finalKey \o <<SQ>>)
        d == IndexOf(line, <<DQ>> \o finalKey \o <<DQ>>)
        b == IndexOf(line, <<BQ>> \o finalKey \o <<BQ>>)
    IN  IF s >= 0 THEN s ELSE IF d >= 0 THEN d ELSE b

findTranslationInContent(text, path) ==
    LET lines == Split(text, NL)
        keys == Split(path, ".")
        finalKey == keys[Len(keys)]
        I == {i \in 1..Len(lines) : IndexInLine(lines[i], finalKey) >= 0}
    IN  IF I = {} THEN Null
        ELSE LET i == CHOOSE x \in I : \A y \in I : x <= y
             IN  [t |-> "location", line |-> i - 1, column |-> IndexInLine(lines[i], finalKey)]

(**************************************************************************)
(* resolveTranslation, resolveTranslationForLocale, getAllTranslations    *)
(**************************************************************************)
\* the two forms of cache key: filePath, and locale + ':' + filePath
PathKey(filePath) == [prefix |-> "", path |-> filePath]
LocaleKey(locale, filePath) == [prefix |-> locale, path |-> filePath]

\* if (!value): null and the empty string are both falsy
Falsy(v) == v.t # "string" \/ v.s = << >>

\* what one call of a resolution function did: what it returned (ret),
\* the cache after it, the readFileSync calls it made, whether the cache
\* had the file (hit), and the translations it looked the key up in
Missing(filePath, cacheKey, cache) ==
    [ret |-> Null, cache |-> cache, reads |-> 0, hit |-> FALSE,
     used |-> Null, filePath |-> filePath, cacheKey |-> cacheKey]

\* from const location = findTranslationInContent(content, keyPath) on
Located(v, filePath, location) ==
    [t |-> "result", value |-> v.s, filePath |-> filePath,
     line |-> IF location = Null THEN 0 ELSE location.line,
     column |-> IF location = Null THEN 0 ELSE location.column]

\* from const value = getNestedValue(translations, keyPath) on: a falsy
\* value returns null, else the file is read (again) and the key located
Looked(path, filePath, cacheKey, cache, hit, translations, v) ==
    [ret |-> IF Falsy(v) THEN Null
             ELSE Located(v, filePath, findTranslationInContent(files[filePath], path)),
     cache |-> IF hit THEN cache ELSE Put(cache, cacheKey, translations),
     reads |-> (IF hit THEN 0 ELSE 1) + (IF Falsy(v) THEN 0 ELSE 1),
     hit |-> hit,
     used |-> translations, filePath |-> filePath, cacheKey |-> cacheKey]

\* from let translations = translationCache.get(cacheKey) on: on a miss
\* the file is read, parsed and the result stored
Cached(path, filePath, cacheKey, cache, hit, translations) ==
    Looked(path, filePath, cacheKey, cache, hit, translations,
           getNestedValue(translations, path))

\* the body the two resolution functions share
ResolveIn(path, filePath, cacheKey, cache) ==
    IF filePath \notin DOMAIN files
    THEN Missing(filePath, cacheKey, cache)
    ELSE IF cacheKey \in DOMAIN cache
         THEN Cached(path, filePath, cacheKey, cache, TRUE, cache[cacheKey])
         ELSE Cached(path, filePath, cacheKey, cache, FALSE, parsePhpArray(files[filePath]))

\* const [file, ...rest] = translationKey.split('.')
FileOf(translationKey) == Head(Split(translationKey, "."))
\* const keyPath = rest.join('.')
KeyPathOf(translationKey) == Join(Tail(Split(translationKey, ".")), ".")

resolveTranslation(translationKey, cache) ==
    LET filePath == FilePath(getLangDirectory("en"), FileOf(translationKey))
    IN  ResolveIn(KeyPathOf(translationKey), filePath, PathKey(filePath), cache)

resolveTranslationForLocale(translationKey, locale, cache) ==
    LET filePath == FilePath(getLangDirectory(locale), FileOf(translationKey))
    IN  ResolveIn(KeyPathOf(translationKey), filePath, LocaleKey(locale, filePath), cache)

\* the for loop of getAllTranslations over the locales still to do, in
\* some order of the directory listing: the calls made, by locale, each
\* on the cache the one before it left
RECURSIVE ForEachLocale(_, _, _, _)
ForOneLocale(translationKey, todo, done, l, r) ==
    ForEachLocale(translationKey, todo \ {l}, r.cache, Put(done, l, r))

ForEachLocale(translationKey, todo, cache, done) ==
    IF todo = {} THEN [calls |-> done, cache |-> cache]
    ELSE ForOneLocale(translationKey, todo, done, CHOOSE x \in todo : TRUE,
                      resolveTranslationForLocale(translationKey, CHOOSE x \in todo : TRUE, cache))

\* translations[locale] = result.value for the locales that resolved
Translations(calls) ==
    [l \in {k \in DOMAIN calls : calls[k].ret # Null} |-> calls[l].ret.value]

\* what the calls of a handler returned, by locale
Rets(calls) == [l \in DOMAIN calls |-> calls[l].ret]

\* the record of a handler run: the calls it made without their caches,
\* each with what the cache last cleared held under its cache key (was)
Calls(calls, dropped) ==
    [l \in DOMAIN calls |->
        [ret |-> calls[l].ret, reads |-> calls[l].reads, hit |-> calls[l].hit,
         used |-> calls[l].used, filePath |-> calls[l].filePath,
         cacheKey |-> calls[l].cacheKey,
         was |-> IF calls[l].cacheKey \in DOMAIN dropped
                 THEN dropped[calls[l].cacheKey] ELSE Null]]

\* a clear that keeps the entries under locale:filePath keys
ClearPathKeys(cache) ==
    [k \in {x \in DOMAIN cache : x.prefix # ""} |-> cache[k]]

\* translationCache.clear()
Clear(cache) == Empty

(**************************************************************************)
(* The extension in a workspace                                           *)
(**************************************************************************)
NotCleared == [yes |-> FALSE, dropped |-> Empty]

Init ==
    /\ dirs \in {D \in SUBSET LangDirs : Cardinality(D) <= MaxDirs}
    /\ \E have \in SUBSET dirs :
           files \in [{FilePath(d, f) : d \in have, f \in FileNames} -> StoreTexts]
    /\ translationCache = Empty
    /\ pending = << >>
    /\ last = Idle
    /\ cleared = NotCleared
    /\ edits = 0
    /\ literal = << >>
    /\ quote = SQ
    /\ content = << >>
    /\ parsed = Null
    /\ keyPath = << >>
    /\ value = Null
    /\ pc = "workspace"

\* a handler ran: the cache it left, and the record of what it did
Handled(op, key, calls, cache, ret) ==
    /\ translationCache' = cache
    /\ last' = [op |-> op, key |-> key, calls |-> Calls(calls, cleared.dropped),
                ret |-> ret, afterClear |-> cleared.yes]
    /\ cleared' = NotCleared
    /\ UNCHANGED <<dirs, files, pending, edits>>
    /\ UNCHANGED pvars

Defined(key, r) == Handled("definition", key, ("en" :> r), r.cache, r.ret)

Hovered(key, all) == Handled("hover", key, all.calls, all.cache, Translations(all.calls))

\* provideDefinition: resolveTranslation(translationKey)
ProvideDefinition(key) ==
    /\ pc = "workspace"
    /\ Defined(key, resolveTranslation(key, translationCache))

\* provideHover: getAllTranslations(translationKey)
ProvideHover(key) ==
    /\ pc = "workspace"
    /\ Hovered(key, ForEachLocale(key, getAvailableLocales, translationCache, Empty))

\* the watcher raises an event for a path its glob matches
Raised(path, kind) ==
    IF GlobMatches(path) THEN Append(pending, kind) ELSE pending

\* a translation file is created or changed on disk
WriteFile(dir, file, text) ==
    LET path == FilePath(dir, file)
        old == path \in DOMAIN files
    IN  /\ pc = "workspace"
        /\ edits < MaxEdits
        /\ dir \in dirs
        /\ old => files[path] # text
        /\ files' = Put(files, path, text)
        /\ pending' = Raised(path, IF old THEN "change" ELSE "create")
        /\ edits' = edits + 1
        /\ last' = [op |-> "edit"]
        /\ UNCHANGED <<dirs, translationCache, cleared>>
        /\ UNCHANGED pvars

\* fs.unlink: the files without the one at path
Without(fs, path) == [p \in DOMAIN fs \ {path} |-> fs[p]]

\* a translation file is deleted from disk
DeleteFile(dir, file) ==
    LET path == FilePath(dir, file)
    IN  /\ pc = "workspace"
        /\ edits < MaxEdits
        /\ path \in DOMAIN files
        /\ files' = Without(files, path)
        /\ pending' = Raised(path, "delete")
        /\ edits' = edits + 1
        /\ last' = [op |-> "edit"]
        /\ UNCHANGED <<dirs, translationCache, cleared>>
        /\ UNCHANGED pvars

\* the watcher delivers its oldest event, of this kind, to its callback,
\* which clears the cache
Delivered(kind) ==
    /\ pending # << >>
    /\ Head(pending) = kind
    /\ pending' = Tail(pending)
    /\ cleared' = [yes |-> TRUE, dropped |-> translationCache]
    /\ translationCache' = Clear(translationCache)
    /\ last' = [op |-> "invalidate"]
    /\ UNCHANGED <<dirs, files, edits>>
    /\ UNCHANGED pvars

onDidChange ==
    /\ pc = "workspace"
    /\ Delivered("change")

onDidCreate ==
    /\ pc = "workspace"
    /\ Delivered("create")

onDidDelete ==
    /\ pc = "workspace"
    /\ Delivered("delete")

Next ==
    \/ \E key \in TranslationKeys : ProvideDefinition(key)
    \/ \E key \in TranslationKeys : ProvideHover(key)
    \/ \E dir \in LangDirs, file \in FileNames, text \in StoreTexts : WriteFile(dir, file, text)
    \/ \E dir \in LangDirs, file \in FileNames : DeleteFile(dir, file)
    \/ onDidChange
    \/ onDidCreate
    \/ onDidDelete

Spec == Init /\ [][Next]_vars

(**************************************************************************)
(* Claims about the store (under Spec)                                    *)
(**************************************************************************)
Handlers == {"definition", "hover"}

\* what the key path of the handler's key resolves to in a file's text now
Fresh(filePath, key) == getNestedValue(parsePhpArray(files[filePath]), KeyPathOf(key))

\* C1: a handler run straight after the same handler run for the same key,
\* no file edited and no cache clear between them, returns what the first
\* returned (value, file path, line, column) and makes no readFileSync call.
C1_IdempotentAndCached ==
    [][(/\ last.op \in Handlers
        /\ last'.op = last.op
        /\ last'.key = last.key)
       => /\ Rets(last'.calls) = Rets(last.calls)
          /\ \A l \in DOMAIN last'.calls : last'.calls[l].reads = 0]_vars

\* C2: once a watcher callback has run, the cache holds no entry under
\* either form of key; and a resolution that follows a clear, for a cache
\* key the clear dropped, misses the cache, reads the file, looks the key
\* up in the parse of the file's current text and returns that value.
C2_ClearThenReread ==
    /\ cleared.yes => translationCache = Empty
    /\ (last.op \in Handlers /\ last.afterClear) =>
           \A l \in DOMAIN last.calls :
               LET c == last.calls[l]
               IN  (c.was # Null /\ c.filePath \in DOMAIN files) =>
                       /\ ~c.hit
                       /\ c.reads >= 1
                       /\ c.used = parsePhpArray(files[c.filePath])
                       /\ c.ret = Null <=> Falsy(Fresh(c.filePath, last.key))
                       /\ c.ret # Null => Str(c.ret.value) = Fresh(c.filePath, last.key)

\* a resolution after a clear returned a value from a file whose cached
\* parse, dropped by the clear, differed from the parse of its text now
C2_Witness ==
    /\ last.op \in Handlers
    /\ last.afterClear
    /\ \E l \in DOMAIN last.calls :
           /\ last.calls[l].was # Null
           /\ last.calls[l].was # last.calls[l].used
           /\ last.calls[l].ret # Null
           /\ last.calls[l].cacheKey.prefix # ""

\* C3: with every event the watcher raised delivered, no resolution returns
\* a value other than the one in the current text of the file it names.
C3_NoStaleValue ==
    (last.op \in Handlers /\ pending = << >>) =>
        \A l \in DOMAIN last.calls :
            LET c == last.calls[l]
            IN  (c.ret # Null /\ c.filePath \in DOMAIN files) =>
                    Str(c.ret.value) = Fresh(c.filePath, last.key)

\* the language root: the parent of the default locale's directory
LanguageRoot == Dirname(getLangDirectory("en"))

\* the file of the key in a locale directory under the language root
OwnFile(l, key) == FilePath(Append(LanguageRoot, l), FileOf(key))

\* the locales under the language root whose own file exists and has the key
Holding(key) ==
    {l \in Locales :
        /\ Append(LanguageRoot, l) \in dirs
        /\ OwnFile(l, key) \in DOMAIN files
        /\ Fresh(OwnFile(l, key), key).t = "string"}

\* C8: in a workspace no file of which was edited since activation, for a
\* key whose values are not empty, getAllTranslations returns exactly the
\* locales under the language root whose file exists and has the key, each
\* with the value in its own file.
C8_ExactlyTheLocalesHolding ==
    (/\ last.op = "hover"
     /\ edits = 0
     /\ \A l \in Holding(last.key) : Fresh(OwnFile(l, last.key), last.key).s # << >>)
    => last.ret = [l \in Holding(last.key) |-> Fresh(OwnFile(l, last.key), last.key).s]

\* C10: a resolution whose file exists returns the leaf string the key
\* path reaches in the translations it looked in, the empty string too,
\* and returns null only when getNestedValue returned null.
C10_LeafIsReturned ==
    last.op \in Handlers =>
        \A l \in DOMAIN last.calls :
            LET c == last.calls[l]
                v == getNestedValue(c.used, KeyPathOf(last.key))
            IN  c.used # Null =>
                    /\ v.t = "string" => (c.ret # Null /\ c.ret.value = v.s)
                    /\ c.ret = Null => v = Null

\* the result a resolution of the key gives when the value and the position
\* are both taken from one text of the file
FromOneText(filePath, key, text) ==
    Located(getNestedValue(parsePhpArray(text), KeyPathOf(key)), filePath,
            findTranslationInContent(text, KeyPathOf(key)))

\* C11: every result returned for a file the watcher watches carries a
\* value and a (line, column) that one text of the file gives together.
C11_ValueAndPositionAgree ==
    last.op \in Handlers =>
        \A l \in DOMAIN last.calls :
            LET c == last.calls[l]
            IN  (c.ret # Null /\ GlobMatches(c.filePath)) =>
                    \E text \in StoreTexts :
                        /\ getNestedValue(parsePhpArray(text), KeyPathOf(last.key)).t = "string"
                        /\ c.ret = FromOneText(c.filePath, last.key, text)
=============================================================================
